---- MODULE Spec2Model ----
(***************************************************************************)
(* Model of the CI resource predictor:                                     *)
(*   src/resources/ml/predict.py      feature engineering, model/heuristic *)
(*                                    prediction, the command-line run     *)
(*   src/demo_prediction.py           select_label                         *)
(*   src/resources/ml/train_model.py  the training run                     *)
(*                                                                         *)
(* Numbers.  Python ints are unbounded, and an int of 2^1024 or more has   *)
(* no float: converting it raises OverflowError.  An int is modelled as    *)
(* the pair (h, v) standing for h * 2^1024 + v with v small, so that the   *)
(* conversion can be modelled by what it does.  Floats that the program    *)
(* computes from small ints are kept exactly, as integers counted in a     *)
(* fixed unit that is named where the value is defined:                    *)
(*   cpu, timeMinutes, confidence   tenths                                 *)
(*   memoryGb                       1/MemUnit GB (MemUnit = 300, so that   *)
(*                                  one-decimal values, hundredths and the *)
(*                                  thresholds divided by 1.2 are exact)   *)
(* round(x, 1) rounds an exact decimal tie by the binary representation of *)
(* x; the model leaves the direction of a tie open (parameter tie).        *)
(***************************************************************************)
EXTENDS Integers, Sequences, FiniteSets, TLC

VARIABLES
    pc,           \* position of the running program
    inputFile,    \* --input: "missing", "unparsable" or "parsed"
    context,      \* the JSON value json.load returned
    modelFile,    \* --model: what os.path.exists / joblib.load / predict do
    excMsg,       \* str(e) of the exception the model path raises
    features,     \* [raised, f]: the result of engineer_features
    result,       \* the value main is about to print
    stdout,       \* the JSON objects printed
    exit,         \* "running", "returned", "uncaught", "exit1"
    calls,        \* which of model / heuristic ran (history)
    label,        \* the (tag, instance) pair select_label returned
    selLow,       \* select_label sweep: the first memory value
    selLowLabel,  \* select_label(selLow)
    selMem,       \* select_label sweep: the current memory value
    trainFeatures,\* the Trainer's engineered columns for the same record
    csv,          \* the training CSV
    written       \* the artifacts the training run wrote, in order

vars == << pc, inputFile, context, modelFile, excMsg, features, result, stdout,
           exit, calls, label, selLow, selLowLabel, selMem, trainFeatures,
           csv, written >>

-----------------------------------------------------------------------------
(* Bounds of the explored inputs.                                          *)

MaxFiles == 3
MaxLines == 1
MaxDeps == 1
MaxHeurFiles == 4
MaxHeurDeps == 3
MaxSelSteps == 90
MaxRows == 12

-----------------------------------------------------------------------------
(* Python values.                                                          *)

PyInt(h, v) == [t |-> "int", h |-> h, v |-> v, s |-> ""]
PyStr(s) == [t |-> "str", h |-> 0, v |-> 0, s |-> s]
PyNone == [t |-> "null", h |-> 0, v |-> 0, s |-> ""]
Absent == [t |-> "absent", h |-> 0, v |-> 0, s |-> ""]
Huge == PyInt(1, 0)

IsFinite(x) == x.t = "int" /\ x.h = 0

IntAdd(a, b) == PyInt(a.h + b.h, a.v + b.v)
IntSub(a, b) == PyInt(a.h - b.h, a.v - b.v)
IntLess(a, b) == a.h < b.h \/ (a.h = b.h /\ a.v < b.v)

\* int / int: "integer division result too large for a float" when the
\* quotient reaches 2^1024; den >= 1 here.
DivOverflows(num, den) == den.h = 0 /\ num.h >= 1 /\ num.h >= den.v

\* x * <float literal>: the exception it raises, "none" when it does not.
FloatMulRaises(x) ==
    IF x.t # "int" THEN "TypeError"
    ELSE IF x.h # 0 THEN "OverflowError"
    ELSE "none"

\* round(x / q, 0) for x >= 0 counted in units of 1/q; tie \in {0, 1} is
\* the direction an exact tie takes.
RoundTo(x, q, tie) ==
    LET lo == x \div q
        r == x % q
    IN  IF 2 * r < q THEN lo ELSE IF 2 * r > q THEN lo + 1 ELSE lo + tie

\* One tie direction for each of the three rounded outputs.
Ties == [cpu : {0, 1}, memoryGb : {0, 1}, timeMinutes : {0, 1}]

Clamp(lo, x, hi) == IF x > hi THEN hi ELSE IF x < lo THEN lo ELSE x

MemUnit == 3 * 100
MemTenth == MemUnit \div 10

-----------------------------------------------------------------------------
(* predict.py: engineer_features                                           *)

Fields == {"filesChanged", "linesAdded", "linesDeleted", "depsChanged",
           "branch", "buildType"}

Get(ctx, key, default) ==
    IF ctx.fields[key].t = "absent" THEN default ELSE ctx.fields[key]

MainBranches == {"main", "master", "develop"}
ReleaseTypes == {"release", "prodRelease"}

InList(x, list) == IF x.t = "str" /\ x.s \in list THEN 1 ELSE 0

PredictDenominator(files) == IF IntLess(PyInt(0, 1), files) THEN files ELSE PyInt(0, 1)

NoFeatures ==
    [files_changed |-> PyNone, lines_added |-> PyNone, lines_deleted |-> PyNone,
     net_lines |-> PyNone, total_changes |-> PyNone, deps_changed |-> PyNone,
     is_main |-> 0, is_release |-> 0,
     code_density |-> [num |-> PyNone, den |-> PyNone]]

FeaturesRaise(exc) == [raised |-> exc, f |-> NoFeatures]

engineer_features(ctx) ==
    IF ctx.kind # "object" THEN FeaturesRaise("AttributeError")
    ELSE
    LET files == Get(ctx, "filesChanged", PyInt(0, 0))
        lines_added == Get(ctx, "linesAdded", PyInt(0, 0))
        lines_deleted == Get(ctx, "linesDeleted", PyInt(0, 0))
        deps == Get(ctx, "depsChanged", PyInt(0, 0))
        branch == Get(ctx, "branch", PyStr("main"))
        build_type == Get(ctx, "buildType", PyStr("debug"))
    IN  IF lines_added.t # "int" \/ lines_deleted.t # "int"
        THEN FeaturesRaise("TypeError")
        ELSE IF files.t # "int" THEN FeaturesRaise("TypeError")
        ELSE IF DivOverflows(IntAdd(lines_added, lines_deleted),
                             PredictDenominator(files))
        THEN FeaturesRaise("OverflowError")
        ELSE [raised |-> "none",
              f |-> [files_changed |-> files,
                     lines_added |-> lines_added,
                     lines_deleted |-> lines_deleted,
                     net_lines |-> IntSub(lines_added, lines_deleted),
                     total_changes |-> IntAdd(lines_added, lines_deleted),
                     deps_changed |-> deps,
                     is_main |-> InList(branch, MainBranches),
                     is_release |-> InList(build_type, ReleaseTypes),
                     code_density |->
                         [num |-> IntAdd(lines_added, lines_deleted),
                          den |-> PredictDenominator(files)]]]

-----------------------------------------------------------------------------
(* predict.py: predict_with_heuristics                                     *)

NoResult ==
    [raised |-> "none", cpu |-> 0, memoryGb |-> 0, timeMinutes |-> 0,
     confidence |-> 0, method |-> "", has_reason |-> FALSE,
     fallback_reason |-> "", error |-> ""]

ResultRaise(exc) == [NoResult EXCEPT !.raised = exc]

\* `if error:` is false for None and for the empty string.
Truthy(error) == error.t = "str" /\ error.s # ""

\* HeuristicMemory without the release multiplier of lines 78-79.
HeuristicMemoryNoRelease(files, total_lines, deps, is_release) ==
    Clamp(2000, (2000 + files * 50 + total_lines + deps * 1500) * 2, 60000)

\* memory before rounding, in 1/2000 GB
HeuristicMemory(files, total_lines, deps, is_release) ==
    Clamp(2000,
          (2000 + files * 50 + total_lines + deps * 1500)
              * (IF is_release # 0 THEN 3 ELSE 2),
          60000)

\* cpu before rounding, in hundredths
HeuristicCpu(files, total_lines) ==
    Clamp(1000, 3000 + files * 50 + total_lines, 9500)

\* time before rounding, in 1/10000 minute
HeuristicTime(files, total_lines, deps, is_release) ==
    Clamp(20000,
          (5000 + files * 200 + total_lines * 5 + deps * 2000)
              * (IF is_release # 0 THEN 13 ELSE 10),
          600000)

predict_with_heuristics(f, error, tie) ==
    IF FloatMulRaises(f.files_changed) # "none"
    THEN ResultRaise(FloatMulRaises(f.files_changed))
    ELSE IF FloatMulRaises(f.total_changes) # "none"
    THEN ResultRaise(FloatMulRaises(f.total_changes))
    ELSE IF FloatMulRaises(f.deps_changed) # "none"
    THEN ResultRaise(FloatMulRaises(f.deps_changed))
    ELSE
    LET files == f.files_changed.v
        total_lines == f.total_changes.v
        deps == f.deps_changed.v
    IN  [raised |-> "none",
         cpu |-> RoundTo(HeuristicCpu(files, total_lines), 10, tie.cpu),
         memoryGb |->
             RoundTo(HeuristicMemory(files, total_lines, deps, f.is_release),
                     200, tie.memoryGb) * MemTenth,
         timeMinutes |->
             RoundTo(HeuristicTime(files, total_lines, deps, f.is_release),
                     1000, tie.timeMinutes),
         confidence |-> 600,
         method |-> "heuristic",
         has_reason |-> Truthy(error),
         fallback_reason |-> IF Truthy(error) THEN error.s ELSE "",
         error |-> ""]

-----------------------------------------------------------------------------
(* demo_prediction.py: select_label                                        *)

Label(tag, instance) == [tag |-> tag, instance |-> instance]
NoLabel == Label("", "")

\* memory_gb * 1.2, in 1/(10 * MemUnit) GB
Required(memory_gb) == memory_gb * 12

\* a threshold written in GB, in 1/(10 * MemUnit) GB
Gb(n) == n * 10 * MemUnit

\* select_label with `<` where the code has `<=`.
select_label_strict(memory_gb) ==
    LET required == Required(memory_gb)
    IN  IF required < Gb(1) THEN Label("lightweight", "T3a Small (1GB)")
        ELSE IF required < Gb(2) THEN Label("executor", "T3a Small (2GB)")
        ELSE IF required < Gb(8) THEN Label("build", "T3a Large (8GB)")
        ELSE IF required < Gb(16) THEN Label("test", "T3a X Large (16GB)")
        ELSE Label("heavytest", "T3a 2X Large (32GB)")

\* select_label with the 8.0 test placed before the 2.0 test.
select_label_misordered(memory_gb) ==
    LET required == Required(memory_gb)
    IN  IF required <= Gb(1) THEN Label("lightweight", "T3a Small (1GB)")
        ELSE IF required <= Gb(8) THEN Label("build", "T3a Large (8GB)")
        ELSE IF required <= Gb(2) THEN Label("executor", "T3a Small (2GB)")
        ELSE IF required <= Gb(16) THEN Label("test", "T3a X Large (16GB)")
        ELSE Label("heavytest", "T3a 2X Large (32GB)")

select_label(memory_gb) ==
    LET required == Required(memory_gb)
    IN  IF required <= Gb(1) THEN Label("lightweight", "T3a Small (1GB)")
        ELSE IF required <= Gb(2) THEN Label("executor", "T3a Small (2GB)")
        ELSE IF required <= Gb(8) THEN Label("build", "T3a Large (8GB)")
        ELSE IF required <= Gb(16) THEN Label("test", "T3a X Large (16GB)")
        ELSE Label("heavytest", "T3a 2X Large (32GB)")

-----------------------------------------------------------------------------
(* predict.py: predict_with_model                                          *)

\* What the regressor returns for one row, in hundredths.
PredOutputs ==
    {[cpu |-> 4525, memoryGb |-> 125, timeMinutes |-> 1234],
     [cpu |-> 8000, memoryGb |-> 640, timeMinutes |-> 300]}

\* np.array / model.predict need every feature to convert to a float.
NumericFeatures(f) ==
    /\ \A k \in {"files_changed", "lines_added", "lines_deleted", "net_lines",
                 "total_changes", "deps_changed"} : IsFinite(f[k])
    /\ IsFinite(f.code_density.num)
    /\ IsFinite(f.code_density.den)

ModelResult(pred, tie) ==
    [raised |-> "none",
     cpu |-> RoundTo(pred.cpu, 10, tie.cpu),
     memoryGb |-> RoundTo(pred.memoryGb, 10, tie.memoryGb) * MemTenth,
     timeMinutes |-> RoundTo(pred.timeMinutes, 10, tie.timeMinutes),
     confidence |-> 850,
     method |-> "ml_model",
     has_reason |-> FALSE,
     fallback_reason |-> "",
     error |-> ""]

ModelRuns(f, model) == model = "ok" /\ NumericFeatures(f)

\* model: "import_error" (joblib / numpy missing), "load_error" (joblib.load
\* raises), "predict_error" (model.predict raises) or "ok"; msg is str(e).
predict_with_model(f, model, msg, pred, tie) ==
    IF model = "import_error"
    THEN predict_with_heuristics(f, PyStr("Missing library: " \o msg), tie)
    ELSE IF model \in {"load_error", "predict_error"}
    THEN predict_with_heuristics(f, PyStr(msg), tie)
    ELSE IF ~NumericFeatures(f)
    THEN predict_with_heuristics(f, PyStr("could not convert to float"), tie)
    ELSE ModelResult(pred, tie)

-----------------------------------------------------------------------------
(* predict.py: main                                                        *)

\* The payload of lines 117-124 tagged as an ordinary heuristic estimate.
ErrorPayloadAsEstimate(msg) ==
    [raised |-> "none", cpu |-> 500, memoryGb |-> 40 * MemTenth,
     timeMinutes |-> 100, confidence |-> 600, method |-> "heuristic",
     has_reason |-> TRUE, fallback_reason |-> "Failed to load input: " \o msg,
     error |-> ""]

ErrorPayload(msg) ==
    [raised |-> "none", cpu |-> 500, memoryGb |-> 40 * MemTenth,
     timeMinutes |-> 100, confidence |-> 0, method |-> "error",
     has_reason |-> FALSE, fallback_reason |-> "",
     error |-> "Failed to load input: " \o msg]

ModelNotFound == PyStr("Model file not found")

NullContext == [kind |-> "null", fields |-> [k \in Fields |-> Absent]]

Object(files, added, deleted, deps, branch, build_type) ==
    [kind |-> "object",
     fields |-> [filesChanged |-> files, linesAdded |-> added,
                 linesDeleted |-> deleted, depsChanged |-> deps,
                 branch |-> branch, buildType |-> build_type]]

\* Parsed contexts of the command-line run: well-formed ones, and ones that
\* parse as JSON but are no object or carry null / wrong-typed fields.
PredictContexts ==
    {[kind |-> k, fields |-> [f \in Fields |-> Absent]] : k \in {"array", "null"}}
    \cup
    {Object(files, added, deleted, deps, branch, build_type) :
        files \in {Absent, PyInt(0, 0), PyInt(0, 3), Huge, PyNone},
        added \in {Absent, PyInt(0, 50), Huge, PyStr("abc")},
        deleted \in {Absent, PyInt(0, 10), PyNone},
        deps \in {Absent, PyNone, Huge} \cup {PyInt(0, n) : n \in 0..MaxDeps},
        branch \in {Absent, PyStr("main"), PyStr("hotfix/bug"), PyNone},
        build_type \in {PyStr("debug"), PyStr("release"), PyInt(0, 3)}}

ModelFiles == {"missing", "import_error", "load_error", "predict_error", "ok"}
ExcMessages == {"", "invalid load key"}

NoCsv ==
    [exists |-> FALSE, parses |-> FALSE, hasStatus |-> FALSE,
     columns |-> FALSE, success |-> 0, other |-> 0]

\* The variables a run of another program leaves at rest.
NoSelect == selLow = 0 /\ selLowLabel = NoLabel /\ selMem = 0
NoTraining == trainFeatures = NoFeatures /\ csv = NoCsv /\ written = << >>
NoPrediction ==
    /\ inputFile = "parsed"
    /\ modelFile = "missing"
    /\ excMsg = ""
    /\ result = NoResult
    /\ stdout = << >>
    /\ calls = {}

InitPredict ==
    /\ pc = "load"
    /\ inputFile \in {"missing", "unparsable", "parsed"}
    /\ context \in PredictContexts
    /\ inputFile # "parsed" => context = NullContext
    /\ modelFile \in ModelFiles
    /\ excMsg \in ExcMessages
    /\ modelFile \in {"missing", "ok"} => excMsg = ""
    /\ features = FeaturesRaise("none")
    /\ result = NoResult
    /\ stdout = << >>
    /\ exit = "running"
    /\ calls = {}
    /\ label = NoLabel
    /\ NoSelect
    /\ NoTraining

PredictFrame ==
    UNCHANGED << inputFile, context, modelFile, excMsg, selLow, selLowLabel,
                 selMem, trainFeatures, csv, written >>

\* lines 112-125: open + json.load; any failure prints the error payload
LoadContext ==
    /\ pc = "load"
    /\ IF inputFile = "parsed"
       THEN /\ pc' = "features"
            /\ UNCHANGED << stdout, exit >>
       ELSE /\ stdout' = Append(stdout, ErrorPayload(inputFile))
            /\ exit' = "returned"
            /\ pc' = "done"
    /\ UNCHANGED << features, result, calls, label >>
    /\ PredictFrame

\* line 128: outside every try block
EngineerFeatures ==
    /\ pc = "features"
    /\ features' = engineer_features(context)
    /\ IF features'.raised = "none"
       THEN pc' = "predict" /\ UNCHANGED exit
       ELSE pc' = "done" /\ exit' = "uncaught"
    /\ UNCHANGED << result, stdout, calls, label >>
    /\ PredictFrame

\* lines 130-134
Predict ==
    /\ pc = "predict"
    /\ \E pred \in PredOutputs, tie \in Ties :
        result' = IF modelFile # "missing"
                  THEN predict_with_model(features.f, modelFile, excMsg, pred, tie)
                  ELSE predict_with_heuristics(features.f, ModelNotFound, tie)
    /\ calls' = (IF modelFile # "missing" THEN {"predict_with_model"} ELSE {})
                \cup (IF modelFile = "missing" \/ ~ModelRuns(features.f, modelFile)
                      THEN {"predict_with_heuristics"} ELSE {})
                \cup (IF ModelRuns(features.f, modelFile)
                      THEN {"model.predict"} ELSE {})
    /\ IF result'.raised = "none"
       THEN pc' = "print" /\ UNCHANGED exit
       ELSE pc' = "done" /\ exit' = "uncaught"
    /\ UNCHANGED << features, stdout, label >>
    /\ PredictFrame

\* line 136
PrintResult ==
    /\ pc = "print"
    /\ stdout' = Append(stdout, result)
    /\ exit' = "returned"
    /\ pc' = "done"
    /\ UNCHANGED << features, result, calls, label >>
    /\ PredictFrame

\* The consumer of the printed estimate picks the worker class from memoryGb.
SelectFromResult ==
    /\ pc = "done"
    /\ exit = "returned"
    /\ label' = select_label(stdout[1].memoryGb)
    /\ pc' = "selected"
    /\ UNCHANGED << features, result, stdout, exit, calls >>
    /\ PredictFrame

NextPredict ==
    \/ LoadContext
    \/ EngineerFeatures
    \/ Predict
    \/ PrintResult
    \/ SelectFromResult

SpecPredict == InitPredict /\ [][NextPredict]_vars

-----------------------------------------------------------------------------
(* predict_with_heuristics applied to feature records                      *)

\* The record engineer_features builds for these counts.
FeatureRecord(files, total, deps, is_release) ==
    [files_changed |-> files,
     lines_added |-> total,
     lines_deleted |-> PyInt(0, 0),
     net_lines |-> total,
     total_changes |-> total,
     deps_changed |-> deps,
     is_main |-> 0,
     is_release |-> is_release,
     code_density |-> [num |-> total, den |-> PredictDenominator(files)]]

HeurFiles == {PyInt(0, n) : n \in (0..MaxHeurFiles) \cup {130, 10000}} \cup {Huge}
HeurTotals == {PyInt(0, n) : n \in {0, 5, 60, 1000, 7000, 100000}} \cup {Huge}
HeurDeps == {PyInt(0, n) : n \in (0..MaxHeurDeps) \cup {19, 30}} \cup {Huge}

InitHeur ==
    /\ pc = "heur_call"
    /\ \E files \in HeurFiles, total \in HeurTotals, deps \in HeurDeps,
          is_release \in {0, 1} :
        features = [raised |-> "none",
                    f |-> FeatureRecord(files, total, deps, is_release)]
    /\ context = NullContext
    /\ NoPrediction
    /\ exit = "running"
    /\ label = NoLabel
    /\ NoSelect
    /\ NoTraining

\* lines 66-103, called without an error argument
CallHeuristics ==
    /\ pc = "heur_call"
    /\ \E tie \in Ties :
        result' = predict_with_heuristics(features.f, PyNone, tie)
    /\ exit' = IF result'.raised = "none" THEN "returned" ELSE "uncaught"
    /\ calls' = {"predict_with_heuristics"}
    /\ pc' = "heur_done"
    /\ UNCHANGED << features, stdout, label >>
    /\ PredictFrame

NextHeur == CallHeuristics

SpecHeur == InitHeur /\ [][NextHeur]_vars

-----------------------------------------------------------------------------
(* select_label applied to increasing memory values                        *)

SelStep == MemUnit \div 6
MaxSelMem == MaxSelSteps * SelStep
SelGrid == {k * SelStep : k \in 0..MaxSelSteps}

InitSelect ==
    /\ pc = "sel_first"
    /\ selLow \in SelGrid
    /\ selMem = selLow
    /\ selLowLabel = NoLabel
    /\ label = NoLabel
    /\ context = NullContext
    /\ features = FeaturesRaise("none")
    /\ NoPrediction
    /\ exit = "running"
    /\ NoTraining

SelectFrame ==
    UNCHANGED << inputFile, context, modelFile, excMsg, features, result,
                 stdout, exit, calls, trainFeatures, csv, written >>

\* lines 64-77
SelectFirst ==
    /\ pc = "sel_first"
    /\ selLowLabel' = select_label(selLow)
    /\ label' = select_label(selMem)
    /\ pc' = "sel_next"
    /\ UNCHANGED << selLow, selMem >>
    /\ SelectFrame

\* lines 64-77, on the next larger memory value
SelectNext ==
    /\ pc = "sel_next"
    /\ selMem < MaxSelMem
    /\ selMem' = selMem + SelStep
    /\ label' = select_label(selMem')
    /\ UNCHANGED << pc, selLow, selLowLabel >>
    /\ SelectFrame

NextSelect == SelectFirst \/ SelectNext

SpecSelect == InitSelect /\ [][NextSelect]_vars

-----------------------------------------------------------------------------
(* Claims about predict_with_heuristics (SpecHeur)                         *)

\* C2: for every feature record with integer files_changed, total_changes,
\* deps_changed >= 0 and is_release in {0, 1}, however large,
\* predict_with_heuristics returns memoryGb within [1.0, 30.0], cpu within
\* [10, 95], timeMinutes within [2, 60], confidence 60.0 and method
\* "heuristic".
C2_HeuristicWithinClamps ==
    pc = "heur_done" =>
        /\ result.raised = "none"
        /\ result.memoryGb >= 1 * MemUnit /\ result.memoryGb <= 30 * MemUnit
        /\ result.cpu >= 100 /\ result.cpu <= 950
        /\ result.timeMinutes >= 20 /\ result.timeMinutes <= 600
        /\ result.confidence = 600
        /\ result.method = "heuristic"

\* C2, the part of it that the code satisfies: the same bounds for every
\* record whose three counts are below 2^1024.
C2_WithinClampsBelowFloatRange ==
    (/\ pc = "heur_done"
     /\ IsFinite(features.f.files_changed)
     /\ IsFinite(features.f.total_changes)
     /\ IsFinite(features.f.deps_changed)) =>
        /\ result.raised = "none"
        /\ result.memoryGb >= 1 * MemUnit /\ result.memoryGb <= 30 * MemUnit
        /\ result.cpu >= 100 /\ result.cpu <= 950
        /\ result.timeMinutes >= 20 /\ result.timeMinutes <= 600
        /\ result.confidence = 600
        /\ result.method = "heuristic"

\* The upper clamps are reached: a release record at filesChanged = 10000.
C2_ClampsReached ==
    /\ pc = "heur_done"
    /\ features.f.files_changed = PyInt(0, 10000)
    /\ features.f.is_release = 1
    /\ result.memoryGb = 30 * MemUnit
    /\ result.cpu = 950
    /\ result.timeMinutes = 600

-----------------------------------------------------------------------------
(* Claims about select_label (SpecSelect)                                  *)

\* The table of section 4.5, thresholds ascending; the last row has none.
LabelTable ==
    << [limit |-> 1, row |-> Label("lightweight", "T3a Small (1GB)")],
       [limit |-> 2, row |-> Label("executor", "T3a Small (2GB)")],
       [limit |-> 8, row |-> Label("build", "T3a Large (8GB)")],
       [limit |-> 16, row |-> Label("test", "T3a X Large (16GB)")] >>
LastRow == Label("heavytest", "T3a 2X Large (32GB)")

\* The first row whose threshold is >= memory * 1.2, memory in 1/MemUnit GB.
FirstRow(memory) ==
    LET fits == {i \in 1..Len(LabelTable) :
                    LabelTable[i].limit * MemUnit * 10 >= memory * 12}
    IN  IF fits = {} THEN LastRow
        ELSE LabelTable[CHOOSE i \in fits : \A j \in fits : i <= j].row

\* C3: select_label(memoryGb) returns exactly the first row of the ascending
\* table whose threshold is >= memoryGb * 1.2, the last row when there is
\* none; a required value equal to a threshold goes to the lower bucket, and
\* tag and instance come from the same row.
C3_SelectLabelIsFirstRow ==
    pc = "sel_next" =>
        /\ label = FirstRow(selMem)
        /\ selLowLabel = FirstRow(selLow)

\* required is exactly 8.0 and the bucket is build, the lower one.
C3_BoundaryWitness ==
    /\ pc = "sel_next"
    /\ selMem * 12 = 8 * MemUnit * 10
    /\ label = Label("build", "T3a Large (8GB)")

Rank(l) ==
    CASE l.tag = "lightweight" -> 1
      [] l.tag = "executor" -> 2
      [] l.tag = "build" -> 3
      [] l.tag = "test" -> 4
      [] l.tag = "heavytest" -> 5
      [] OTHER -> 0

\* C4: select_label is monotonic in bucket severity (m1 <= m2 implies
\* rank(select_label(m1)) <= rank(select_label(m2))), and as memoryGb
\* increases the bucket moves up by at most one rank at a time, so every
\* bucket is visited in table order with none skipped.
C4_SelectLabelMonotonic ==
    /\ [](pc = "sel_next" =>
            /\ selLow <= selMem
            /\ Rank(selLowLabel) >= 1
            /\ Rank(selLowLabel) <= Rank(label))
    /\ [][pc = "sel_next" => Rank(label') - Rank(label) \in {0, 1}]_vars

\* A sweep that started at 0 in lightweight has reached heavytest.
C4_AllBucketsWitness ==
    /\ pc = "sel_next"
    /\ selLow = 0
    /\ selLowLabel.tag = "lightweight"
    /\ label.tag = "heavytest"

-----------------------------------------------------------------------------
(* The two feature computations on one build record                        *)

\* predict.py lines 44-48 and train_model.py lines 55-59
FeatureOrder ==
    << "files_changed", "lines_added", "lines_deleted", "net_lines",
       "total_changes", "deps_changed", "is_main", "is_release",
       "code_density" >>
FeatureCols ==
    << "files_changed", "lines_added", "lines_deleted", "net_lines",
       "total_changes", "deps_changed", "is_main", "is_release",
       "code_density" >>

\* [features[f] for f in feature_order] / df[feature_cols]
Vector(f, order) == [i \in 1..Len(order) |-> f[order[i]]]

\* files_changed + 1, with the max(files, 1) of the Predictor in its place.
TrainDenominatorAsPredictor(files) == PredictDenominator(files)

TrainDenominator(files) == IntAdd(files, PyInt(0, 1))

\* train_model.py lines 47-52, on one row of the frame
trainer_features(row) ==
    LET net_lines == IntSub(row.lines_added, row.lines_deleted)
        total_changes == IntAdd(row.lines_added, row.lines_deleted)
    IN  [files_changed |-> row.files_changed,
         lines_added |-> row.lines_added,
         lines_deleted |-> row.lines_deleted,
         net_lines |-> net_lines,
         total_changes |-> total_changes,
         deps_changed |-> row.deps_changed,
         is_main |-> InList(row.branch, MainBranches),
         is_release |-> InList(row.build_type, ReleaseTypes),
         code_density |->
             [num |-> total_changes, den |-> TrainDenominator(row.files_changed)]]

\* The CSV row of the build a context describes.
Row(ctx) ==
    [files_changed |-> ctx.fields.filesChanged,
     lines_added |-> ctx.fields.linesAdded,
     lines_deleted |-> ctx.fields.linesDeleted,
     deps_changed |-> ctx.fields.depsChanged,
     branch |-> ctx.fields.branch,
     build_type |-> ctx.fields.buildType]

\* A row pandas reads into integer columns: every cell present, counts
\* within the int64 range.
HasCsvRow(ctx) ==
    /\ \A k \in Fields : ctx.fields[k].t # "absent"
    /\ \A k \in {"filesChanged", "linesAdded", "linesDeleted", "depsChanged"} :
          IsFinite(ctx.fields[k])

\* Contexts that satisfy the BuildContext schema: counts are ints >= 0,
\* branch and buildType strings, any field possibly absent.
ValidContexts ==
    {Object(files, added, deleted, deps, branch, build_type) :
        files \in {Absent, Huge} \cup {PyInt(0, n) : n \in 0..MaxFiles},
        added \in {Absent, Huge}
                  \cup {PyInt(0, n) : n \in (0..MaxLines) \cup {10, 50}},
        deleted \in {Absent, Huge}
                  \cup {PyInt(0, n) : n \in (0..MaxLines) \cup {10, 50}},
        deps \in {Absent, Huge} \cup {PyInt(0, n) : n \in 0..MaxDeps},
        branch \in {Absent} \cup {PyStr(b) : b \in {"main", "master", "develop",
                                                   "hotfix/bug"}},
        build_type \in {Absent} \cup {PyStr(b) : b \in {"debug", "release",
                                                       "prodRelease"}}}

InitFeat ==
    /\ pc = "feat_call"
    /\ context \in ValidContexts
    /\ features = FeaturesRaise("none")
    /\ NoPrediction
    /\ exit = "running"
    /\ label = NoLabel
    /\ NoSelect
    /\ NoTraining

FeatFrame ==
    UNCHANGED << inputFile, context, modelFile, excMsg, result, stdout, calls,
                 label, selLow, selLowLabel, selMem, csv, written >>

\* predict.py lines 13-32
CallEngineerFeatures ==
    /\ pc = "feat_call"
    /\ features' = engineer_features(context)
    /\ exit' = IF features'.raised = "none" THEN "returned" ELSE "uncaught"
    /\ pc' = "feat_engineered"
    /\ UNCHANGED trainFeatures
    /\ FeatFrame

\* train_model.py lines 47-52 on the row of the same build
TrainerColumns ==
    /\ pc = "feat_engineered"
    /\ HasCsvRow(context)
    /\ trainFeatures' = trainer_features(Row(context))
    /\ pc' = "feat_both"
    /\ UNCHANGED << features, exit >>
    /\ FeatFrame

NextFeat == CallEngineerFeatures \/ TrainerColumns

SpecFeat == InitFeat /\ [][NextFeat]_vars

-----------------------------------------------------------------------------
(* Claims about the feature computations (SpecFeat)                        *)

IsZero(x) == x.t = "int" /\ x.h = 0 /\ x.v = 0

\* C7: for every BuildContext with integer counts >= 0 (any field possibly
\* absent, defaulting to 0 / 'main' / 'debug') engineer_features succeeds,
\* with net_lines = linesAdded - linesDeleted, total_changes = linesAdded +
\* linesDeleted, is_main = 1 iff branch is main, master or develop,
\* is_release = 1 iff buildType is release or prodRelease; and neither
\* code_density denominator, max(filesChanged, 1) or files_changed + 1, is
\* zero.
C7_EngineerFeaturesTotal ==
    pc \in {"feat_engineered", "feat_both"} =>
        LET files == Get(context, "filesChanged", PyInt(0, 0))
            added == Get(context, "linesAdded", PyInt(0, 0))
            deleted == Get(context, "linesDeleted", PyInt(0, 0))
            branch == Get(context, "branch", PyStr("main"))
            build_type == Get(context, "buildType", PyStr("debug"))
        IN  /\ features.raised = "none"
            /\ features.f.net_lines.h = added.h - deleted.h
            /\ features.f.net_lines.v = added.v - deleted.v
            /\ features.f.total_changes.h = added.h + deleted.h
            /\ features.f.total_changes.v = added.v + deleted.v
            /\ features.f.is_main = 1 <=> branch.s \in {"main", "master", "develop"}
            /\ features.f.is_main \in {0, 1}
            /\ features.f.is_release = 1 <=> build_type.s \in {"release", "prodRelease"}
            /\ features.f.is_release \in {0, 1}
            /\ ~IsZero(features.f.code_density.den)
            /\ ~IsZero(TrainDenominator(files))

\* C7, the part of it that the code satisfies: the same for every context
\* whose counts are below 2^1024.
C7_TotalBelowFloatRange ==
    (/\ pc \in {"feat_engineered", "feat_both"}
     /\ \A k \in {"filesChanged", "linesAdded", "linesDeleted", "depsChanged"} :
           context.fields[k].h = 0) =>
        LET files == Get(context, "filesChanged", PyInt(0, 0))
            added == Get(context, "linesAdded", PyInt(0, 0))
            deleted == Get(context, "linesDeleted", PyInt(0, 0))
            branch == Get(context, "branch", PyStr("main"))
            build_type == Get(context, "buildType", PyStr("debug"))
        IN  /\ features.raised = "none"
            /\ features.f.net_lines = PyInt(0, added.v - deleted.v)
            /\ features.f.total_changes = PyInt(0, added.v + deleted.v)
            /\ features.f.is_main = 1 <=> branch.s \in {"main", "master", "develop"}
            /\ features.f.is_release = 1 <=> build_type.s \in {"release", "prodRelease"}
            /\ ~IsZero(features.f.code_density.den)
            /\ ~IsZero(TrainDenominator(files))

\* num / den of two densities are the same number (finite counts).
SameDensity(a, b) == a.num.v * b.den.v = b.num.v * a.den.v

AgreeOutsideDensity ==
    /\ FeatureOrder = FeatureCols
    /\ \A i \in 1..Len(FeatureOrder) :
          FeatureOrder[i] # "code_density" =>
              Vector(features.f, FeatureOrder)[i]
                  = Vector(trainFeatures, FeatureCols)[i]

\* C10 as stated: the two feature vectors of one build record agree in order
\* and in every feature except code_density, and the two code_density values
\* are equal only at filesChanged = 0, diverging for every record with
\* filesChanged >= 1.
C10_DensityEqualOnlyAtZeroFiles ==
    pc = "feat_both" =>
        /\ AgreeOutsideDensity
        /\ SameDensity(features.f.code_density, trainFeatures.code_density)
               <=> IsZero(features.f.files_changed)

\* C10 as amended: the two feature vectors agree in order and in every
\* feature except code_density, and the two code_density values are equal
\* exactly when filesChanged = 0 or total_changes = 0 (both are then
\* total_changes / 1 or 0); they differ for every record with
\* filesChanged >= 1 and total_changes > 0.
C10_DensityEqualIffZeroFilesOrZeroChanges ==
    pc = "feat_both" =>
        /\ AgreeOutsideDensity
        /\ SameDensity(features.f.code_density, trainFeatures.code_density)
               <=> (IsZero(features.f.files_changed)
                    \/ IsZero(features.f.total_changes))

\* One file changed, 60 lines: the Predictor divides by 1, the Trainer by 2.
C10_DivergeWitness ==
    /\ pc = "feat_both"
    /\ features.f.files_changed = PyInt(0, 1)
    /\ features.f.total_changes = PyInt(0, 60)
    /\ features.f.code_density.den = PyInt(0, 1)
    /\ trainFeatures.code_density.den = PyInt(0, 2)
    /\ ~SameDensity(features.f.code_density, trainFeatures.code_density)

-----------------------------------------------------------------------------
(* train_model.py: main                                                    *)

MinSuccessfulBuilds == 10

ArtifactOrder == << "model.pkl", "metadata.json", "metrics.json" >>

\* len(df) at line 44, with every row counted whatever its status.
RowsUnfiltered(c) == c.success + c.other

\* len(df) at line 44: the SUCCESS rows when the frame has a status column
\* (lines 40-42), every row when it has none.
RowsAfterFilter(c) == IF c.hasStatus THEN c.success ELSE c.success + c.other

TrainCsvs ==
    {c \in [exists : BOOLEAN, parses : BOOLEAN, hasStatus : BOOLEAN,
            columns : BOOLEAN, success : 0..MaxRows, other : 0..MaxRows] :
        /\ ~c.hasStatus => c.success = 0
        /\ ~c.exists => (~c.parses /\ ~c.hasStatus /\ ~c.columns
                         /\ c.success = 0 /\ c.other = 0)
        /\ ~c.parses => (~c.hasStatus /\ ~c.columns
                         /\ c.success = 0 /\ c.other = 0)}

InitTrain ==
    /\ pc = "t_start"
    /\ csv \in TrainCsvs
    /\ written = << >>
    /\ trainFeatures = NoFeatures
    /\ exit = "running"
    /\ context = NullContext
    /\ features = FeaturesRaise("none")
    /\ NoPrediction
    /\ label = NoLabel
    /\ NoSelect

TrainFrame ==
    UNCHANGED << inputFile, context, modelFile, excMsg, features, result,
                 stdout, label, selLow, selLowLabel, selMem, trainFeatures,
                 csv >>

\* lines 189-191: print the error, sys.exit(1)
TrainingFails ==
    /\ exit' = "exit1"
    /\ pc' = "t_done"
    /\ UNCHANGED << written, calls >>

\* lines 152-158: the data file must exist; the output directory is created
CheckDataFile ==
    /\ pc = "t_start"
    /\ IF csv.exists
       THEN pc' = "t_load" /\ UNCHANGED exit
       ELSE pc' = "t_done" /\ exit' = "exit1"
    /\ UNCHANGED << written, calls >>
    /\ TrainFrame

\* line 162, lines 32-79: read_csv, the SUCCESS filter, the row check, the
\* engineered columns (a missing column raises KeyError)
LoadAndPrepareData ==
    /\ pc = "t_load"
    /\ IF /\ csv.parses
          /\ ~(RowsAfterFilter(csv) < MinSuccessfulBuilds)
          /\ csv.columns
       THEN /\ pc' = "t_fit"
            /\ calls' = calls \cup {"load_and_prepare_data"}
            /\ UNCHANGED << exit, written >>
       ELSE TrainingFails
    /\ TrainFrame

\* line 165, lines 82-142: split, fit, evaluate; the library may raise
TrainModel ==
    /\ pc = "t_fit"
    /\ \/ /\ pc' = "t_save_model"
          /\ calls' = calls \cup {"train_model"}
          /\ UNCHANGED << exit, written >>
       \/ TrainingFails
    /\ TrainFrame

\* lines 167-170: joblib.dump; the write may fail
SaveModel ==
    /\ pc = "t_save_model"
    /\ \/ /\ written' = Append(written, "model.pkl")
          /\ pc' = "t_save_metadata"
          /\ UNCHANGED << exit, calls >>
       \/ TrainingFails
    /\ TrainFrame

\* lines 172-182
SaveMetadata ==
    /\ pc = "t_save_metadata"
    /\ \/ /\ written' = Append(written, "metadata.json")
          /\ pc' = "t_save_metrics"
          /\ UNCHANGED << exit, calls >>
       \/ TrainingFails
    /\ TrainFrame

\* lines 184-187, then main returns
SaveMetrics ==
    /\ pc = "t_save_metrics"
    /\ \/ /\ written' = Append(written, "metrics.json")
          /\ pc' = "t_done"
          /\ exit' = "returned"
          /\ UNCHANGED calls
       \/ TrainingFails
    /\ TrainFrame

NextTrain ==
    \/ CheckDataFile
    \/ LoadAndPrepareData
    \/ TrainModel
    \/ SaveModel
    \/ SaveMetadata
    \/ SaveMetrics

SpecTrain == InitTrain /\ [][NextTrain]_vars

-----------------------------------------------------------------------------
(* Claims about the training run (SpecTrain)                               *)

IsPrefix(p, q) == Len(p) <= Len(q) /\ \A i \in 1..Len(p) : p[i] = q[i]

ArtifactsOnlyAfterFit ==
    /\ IsPrefix(written, ArtifactOrder)
    /\ written # << >> =>
          {"load_and_prepare_data", "train_model"} \subseteq calls
    /\ (pc = "t_done" /\ exit = "returned") => written = ArtifactOrder

-----------------------------------------------------------------------------
(* Claims about the command-line run of predict.py (SpecPredict)           *)

Finished == pc \in {"done", "selected"}

\* C1: the fallback-variant predictor never raises to its caller: for every
\* model state (missing, corrupt, failing at predict, loadable) and every
\* context that parses as JSON, malformed or not, the run ends by printing
\* one ResourcePrediction object.
C1_NeverRaises ==
    Finished => (exit = "returned" /\ Len(stdout) = 1)

\* The heuristic estimate for the engineered features, whatever the tie.
IsHeuristicEstimate(r) ==
    \E tie \in Ties :
        LET h == predict_with_heuristics(features.f, PyNone, tie)
        IN  /\ r.cpu = h.cpu
            /\ r.memoryGb = h.memoryGb
            /\ r.timeMinutes = h.timeMinutes
            /\ r.confidence = 600

\* C5: every printed result that does not come from a successful model run
\* is the heuristic estimate for the same features with method "heuristic"
\* and a fallback_reason present, also when the exception message is empty;
\* a missing model path gives the reason "Model file not found"; method
\* "ml_model" with confidence 85.0 appears only when load and predict both
\* succeeded.
C5_FallbackCarriesReason ==
    (Finished /\ exit = "returned" /\ inputFile = "parsed") =>
        LET r == stdout[1]
        IN  /\ r.method = "ml_model" =>
                  (/\ modelFile = "ok"
                   /\ "model.predict" \in calls
                   /\ r.confidence = 850)
            /\ r.method # "ml_model" =>
                  (/\ r.method = "heuristic"
                   /\ IsHeuristicEstimate(r)
                   /\ r.has_reason)
            /\ modelFile = "missing" =>
                  (r.method = "heuristic"
                   /\ r.fallback_reason = "Model file not found")

\* C5, the part of it that the code satisfies: the same, with the
\* fallback_reason present exactly when the reason passed is not empty.
C5_FallbackCarriesNonEmptyReason ==
    (Finished /\ exit = "returned" /\ inputFile = "parsed") =>
        LET r == stdout[1]
        IN  /\ r.method = "ml_model" =>
                  (/\ modelFile = "ok"
                   /\ "model.predict" \in calls
                   /\ r.confidence = 850)
            /\ r.method # "ml_model" =>
                  (/\ r.method = "heuristic"
                   /\ IsHeuristicEstimate(r)
                   /\ r.has_reason <=> (modelFile \in {"missing", "import_error"}
                                        \/ excMsg # ""))
            /\ modelFile = "missing" =>
                  (r.method = "heuristic"
                   /\ r.fallback_reason = "Model file not found")

\* C6 as stated: when the --input file is missing or does not parse, the
\* run ends in a failure outcome and prints no cpu / memoryGb / timeMinutes
\* values a caller could consume; neither the model nor the heuristic runs.
C6_InputErrorPrintsNoEstimate ==
    (Finished /\ inputFile # "parsed") =>
        (/\ stdout = << >>
         /\ exit # "returned"
         /\ label = NoLabel
         /\ calls = {})

\* C6 as amended: when the --input file is missing or does not parse,
\* neither feature engineering nor the model nor the heuristic runs, and the
\* run returns normally after printing exactly one object with method
\* "error", confidence 0.0, an error message, and the fixed placeholder
\* values cpu 50.0, memoryGb 4.0, timeMinutes 10.0.
C6_InputErrorPrintsErrorPayload ==
    (Finished /\ inputFile # "parsed") =>
        (/\ Len(stdout) = 1
         /\ stdout[1].method = "error"
         /\ stdout[1].confidence = 0
         /\ stdout[1].error # ""
         /\ stdout[1].cpu = 500
         /\ stdout[1].memoryGb = 4 * MemUnit
         /\ stdout[1].timeMinutes = 100
         /\ ~stdout[1].has_reason
         /\ exit = "returned"
         /\ features = FeaturesRaise("none")
         /\ calls = {})

\* The placeholder of an unparsable input has been consumed as an estimate.
C6_PayloadConsumedWitness ==
    /\ pc = "selected"
    /\ inputFile = "unparsable"
    /\ stdout[1].method = "error"
    /\ label = Label("build", "T3a Large (8GB)")

ScenarioA ==
    Object(PyInt(0, 3), PyInt(0, 50), PyInt(0, 10), PyInt(0, 0),
           PyStr("hotfix/bug"), PyStr("debug"))
ScenarioB ==
    Object(PyInt(0, 3), PyInt(0, 50), PyInt(0, 10), PyInt(0, 0),
           PyStr("main"), PyStr("release"))

\* n hundredths of a GB, in 1/MemUnit GB
Hundredths(n) == n * (MemUnit \div 100)

\* C8 as stated: with no model file, scenario A yields memory 2.21 GB,
\* required 2.65 and bucket build / T3a Large (8GB); scenario B has
\* is_main = 1, is_release = 1, memory 3.32 GB, required 3.98, bucket build.
C8_ScenarioValuesAsStated ==
    (pc = "selected" /\ modelFile = "missing") =>
        /\ context = ScenarioA =>
              (/\ stdout[1].method = "heuristic"
               /\ stdout[1].memoryGb = Hundredths(221)
               /\ stdout[1].memoryGb * 12 = Hundredths(265) * 10
               /\ label = Label("build", "T3a Large (8GB)"))
        /\ context = ScenarioB =>
              (/\ features.f.is_main = 1
               /\ features.f.is_release = 1
               /\ stdout[1].method = "heuristic"
               /\ stdout[1].memoryGb = Hundredths(332)
               /\ stdout[1].memoryGb * 12 = Hundredths(398) * 10
               /\ label = Label("build", "T3a Large (8GB)"))

\* C8 as amended: with no model file, scenario A takes the heuristic path;
\* the estimate is 2.21 GB before the rounding to one decimal and the
\* printed memoryGb is 2.2, which select_label maps via required = 2.64 to
\* build / T3a Large (8GB); scenario B has is_main = 1, is_release = 1, the
\* estimate is 3.315 GB before rounding and the printed memoryGb is 3.3,
\* required = 3.96, bucket build.
C8_ScenarioValuesRounded ==
    (pc = "selected" /\ modelFile = "missing") =>
        /\ context = ScenarioA =>
              (/\ stdout[1].method = "heuristic"
               /\ stdout[1].fallback_reason = "Model file not found"
               /\ HeuristicMemory(features.f.files_changed.v,
                                  features.f.total_changes.v,
                                  features.f.deps_changed.v,
                                  features.f.is_release) = 2 * 2210
               /\ stdout[1].memoryGb = Hundredths(220)
               /\ stdout[1].memoryGb * 12 = Hundredths(264) * 10
               /\ label = Label("build", "T3a Large (8GB)"))
        /\ context = ScenarioB =>
              (/\ features.f.is_main = 1
               /\ features.f.is_release = 1
               /\ stdout[1].method = "heuristic"
               /\ stdout[1].fallback_reason = "Model file not found"
               /\ HeuristicMemory(features.f.files_changed.v,
                                  features.f.total_changes.v,
                                  features.f.deps_changed.v,
                                  features.f.is_release) = 2 * 3315
               /\ stdout[1].memoryGb = Hundredths(330)
               /\ stdout[1].memoryGb * 12 = Hundredths(396) * 10
               /\ label = Label("build", "T3a Large (8GB)"))

\* Scenario B has run to the end without a model file.
C8_ScenarioBWitness ==
    /\ pc = "selected"
    /\ modelFile = "missing"
    /\ context = ScenarioB
    /\ "predict_with_heuristics" \in calls
    /\ label.tag = "build"

====
